---- MODULE Spec2Model ----
(***************************************************************************)
(* A model of the voice-cloning front ends: the path containment check     *)
(* (src/src/voice_cloner.py validate_path), VoiceCloner.clone_voice, the   *)
(* command line (src/cli.py), quick_clone.py, the web handler (web_ui.py)  *)
(* and the audio preparation script (src/scripts/prepare_audio.py).        *)
(*                                                                         *)
(* Paths are records [abs, parts]: parts is the sequence of the path's     *)
(* components.  The modelled file systems hold no symbolic links, so       *)
(* Path.resolve() is: make absolute against the working directory, then    *)
(* collapse the ".." components.                                           *)
(***************************************************************************)
EXTENDS Integers, Sequences, FiniteSets, TLC

VARIABLES
    vp_path,        \* validate_path: the path argument of the last call
    vp_allowed,     \* validate_path: the allowed_parent argument
    vp_result,      \* validate_path: what the call did (returned / raised)
    files,          \* the file system: the regular files (absolute component sequences)
    dirs,           \* the file system: the directories
    tts_call,       \* the tts.tts_to_file call the last operation made, or None
    cv_args,        \* clone_voice called directly: the arguments of the last call
    cv_result,      \* clone_voice called directly: what the last call did
    pc,             \* front ends: "start", "interactive", "web" or "exited"
    exit_status,    \* the process's exit status once pc = "exited", else -1
    voice_name,     \* cli: args.voice
    cli_args,       \* cli: args.output, args.interactive and args.list_voices
    voice_file,     \* cli: what find_voice_file returned
    counter,        \* interactive_mode: counter
    current_language, \* interactive_mode: current_language
    prompt_event,   \* interactive_mode: what the last input() gave, or None
    last,           \* the last step: [op, msg], msg naming what it did and printed
    web_args,       \* web UI: the (text, voice_file, language) of the last generate_speech call
    web_result,     \* web UI: what the call did: raised, or the (audio_path, status) returned
    pa_pc,          \* prepare_audio.py main: "start", "process", "combine" or "done"
    pa_dir_exists,  \* prepare_audio.py: whether args.voice_dir exists
    pa_fs,          \* prepare_audio.py: the sample files of the voice directory
    pa_args,        \* prepare_audio.py: args.input, args.output, args.process_all
    pa_queue,       \* prepare_audio.py main: the samples the loop has still to visit
    pa_export,      \* prepare_audio: the audio the last call exported, or None
    pa_combined,    \* combine_samples: the audio exported as combined.wav, or None
    pa_last         \* prepare_audio.py: what the last step did

vpVars == <<vp_path, vp_allowed, vp_result>>
fsVars == <<files, dirs>>
ttsVars == <<tts_call>>
cvVars == <<cv_args, cv_result>>
paVars == <<pa_pc, pa_dir_exists, pa_fs, pa_args, pa_queue, pa_export,
            pa_combined, pa_last>>
feVars == <<pc, exit_status, voice_name, cli_args, voice_file, counter, current_language,
            prompt_event, last, web_args, web_result>>

----------------------------------------------------------------------------
(* Bounds *)

\* longest path (in components) drawn as an input of validate_path
MaxParts == 3

\* interactive_mode: generations per session (the counter is unbounded in the code)
MaxCounter == 2

\* texts longer than MAX_TEXT_LENGTH: by 1 .. MaxOver characters
MaxOver == 1

----------------------------------------------------------------------------
(* Program constants *)

\* MAX_TEXT_LENGTH of cli.main, quick_clone.main and web_ui.generate_speech
MAX_TEXT_LENGTH == 10000

----------------------------------------------------------------------------
(* pathlib *)

\* the process's working directory: the repository checkout
CWD == <<"proj">>

\* Python's None, where a path or a call record is expected
None == [none |-> TRUE]

P(abs, parts) == [abs |-> abs, parts |-> parts]

Rel(parts) == P(FALSE, parts)

\* Path(a) / b : an absolute right operand replaces the left one
PathJoin(a, b) == IF b.abs THEN b ELSE P(a.abs, a.parts \o b.parts)

\* the parent of an absolute component sequence; the root is its own parent
ParentParts(s) == IF s = <<>> THEN <<>> ELSE SubSeq(s, 1, Len(s) - 1)

RECURSIVE CollapseFrom(_, _)
\* walk `parts` from the directory `cur`, ".." stepping to the parent
CollapseFrom(cur, parts) ==
    IF parts = <<>> THEN cur
    ELSE IF Head(parts) = ".."
         THEN CollapseFrom(ParentParts(cur), Tail(parts))
         ELSE CollapseFrom(Append(cur, Head(parts)), Tail(parts))

\* Path(p).resolve(), as its absolute component sequence
Resolve(p) == CollapseFrom(IF p.abs THEN <<>> ELSE CWD, p.parts)

\* resolved.relative_to(allowed) succeeds: allowed's components lead resolved's
RelativeToOk(resolved, allowed) ==
    /\ Len(allowed) <= Len(resolved)
    /\ \A i \in 1..Len(allowed) : resolved[i] = allowed[i]

\* validate_path without resolving: ".." components are kept as they are
ValidatePathUnresolved(path, allowed_parent) ==
    LET resolved == (IF path.abs THEN <<>> ELSE CWD) \o path.parts
        allowed  == Resolve(allowed_parent)
    IN  IF RelativeToOk(resolved, allowed)
        THEN [raised |-> "", value |-> P(TRUE, CollapseFrom(<<>>, resolved))]
        ELSE [raised |-> "ValueError", value |-> None]

\* validate_path(path, allowed_parent)
ValidatePath(path, allowed_parent) ==
    LET resolved == Resolve(path)
        allowed  == Resolve(allowed_parent)
    IN  IF RelativeToOk(resolved, allowed)
        THEN [raised |-> "", value |-> P(TRUE, resolved)]
        ELSE [raised |-> "ValueError", value |-> None]

vars == <<vpVars, fsVars, ttsVars, cvVars, feVars, paVars>>

\* the audio preparation script has not been started and has no files
PrepIdle ==
    /\ pa_pc = "start" /\ pa_dir_exists = FALSE
    /\ pa_fs = <<>> /\ pa_args = None /\ pa_queue = <<>>
    /\ pa_export = None /\ pa_combined = None /\ pa_last = ""

\* no front end has been started
FrontIdle ==
    /\ pc = "start" /\ exit_status = -1
    /\ voice_name = None /\ cli_args = None /\ voice_file = None
    /\ counter = 0 /\ current_language = "" /\ prompt_event = None
    /\ last = [op |-> "", msg |-> ""]
    /\ web_args = None /\ web_result = None

----------------------------------------------------------------------------
(* Inputs of validate_path *)

Components == {"..", "voices", "outputs", "proj", "my_voice", "a.wav"}

SeqsUpTo(S, n) == UNION {[1..k -> S] : k \in 0..n}

PathInputs == {P(a, s) : a \in BOOLEAN, s \in SeqsUpTo(Components, MaxParts)}

AllowedInputs == {Rel(<<"voices">>), Rel(<<"outputs">>),
                  P(TRUE, <<"proj", "voices">>), Rel(<<"voices", "..", "outputs">>)}

NoCall == [raised |-> "none", value |-> None]

PathInit ==
    /\ vp_path \in PathInputs
    /\ vp_allowed \in AllowedInputs
    /\ vp_result = NoCall
    /\ files = {} /\ dirs = {<<>>, CWD}
    /\ tts_call = None /\ cv_args = None /\ cv_result = None
    /\ FrontIdle /\ PrepIdle

\* one call validate_path(vp_path, vp_allowed)
CallValidatePath ==
    /\ vp_result = NoCall
    /\ vp_result' = ValidatePath(vp_path, vp_allowed)
    /\ UNCHANGED <<vp_path, vp_allowed, fsVars, ttsVars, cvVars, feVars, paVars>>

----------------------------------------------------------------------------
(* Text.  A string is a sequence of tokens: a run of whitespace or a word  *)
(* (a run of non-whitespace characters), each with its length, so that     *)
(* len(), strip(), split() and lower() are computed as Python computes     *)
(* them.  Adjacent tokens are of different kinds.                          *)

Sp(n) == [ws |-> TRUE, w |-> " ", up |-> FALSE, len |-> n]

\* the word w (given in lower case); up: some letter of it is upper case
Word(w, up, n) == [ws |-> FALSE, w |-> w, up |-> up, len |-> n]

\* a str, or None where the argument was not given
Txt(toks) == [none |-> FALSE, toks |-> toks]
NoneText == [none |-> TRUE, toks |-> <<>>]

RECURSIVE SumLen(_)
SumLen(toks) == IF toks = <<>> THEN 0 ELSE Head(toks).len + SumLen(Tail(toks))

\* len(text)
TextLen(text) == SumLen(text.toks)

RECURSIVE LStripToks(_)
LStripToks(toks) ==
    IF toks # <<>> /\ Head(toks).ws THEN LStripToks(Tail(toks)) ELSE toks

RECURSIVE RStripToks(_)
RStripToks(toks) ==
    IF toks # <<>> /\ toks[Len(toks)].ws
    THEN RStripToks(SubSeq(toks, 1, Len(toks) - 1)) ELSE toks

\* text.strip()
Strip(text) == Txt(RStripToks(LStripToks(text.toks)))

\* Python's truth value of a str or None: None and "" are false
Truthy(text) == ~text.none /\ TextLen(text) > 0

\* `not text or not text.strip()`
IsBlank(text) == ~Truthy(text) \/ ~Truthy(Strip(text))

----------------------------------------------------------------------------
(* The file system *)

RECURSIVE WalkExists(_, _, _, _)
\* follow `parts` from the existing directory `cur`, as the kernel does:
\* every component passed through must be a directory
WalkExists(fs_files, fs_dirs, cur, parts) ==
    IF parts = <<>> THEN TRUE
    ELSE LET nxt == IF Head(parts) = ".." THEN ParentParts(cur)
                    ELSE Append(cur, Head(parts))
         IN  IF Tail(parts) = <<>>
             THEN nxt \in fs_files \cup fs_dirs
             ELSE nxt \in fs_dirs /\ WalkExists(fs_files, fs_dirs, nxt, Tail(parts))

\* os.path.exists(p) / Path(p).exists()
Exists(fs_files, fs_dirs, p) ==
    WalkExists(fs_files, fs_dirs, IF p.abs THEN <<>> ELSE CWD, p.parts)

\* Path(p).parent
ParentPath(p) == P(p.abs, ParentParts(p.parts))

\* the directory d and all the directories above it
SelfAndAncestors(d) == {SubSeq(d, 1, k) : k \in 0..Len(d)}

\* Path(p).mkdir(parents=True, exist_ok=True) of a path without ".." components:
\* fails when the path or a directory above it is a regular file
MkdirParents(fs_files, fs_dirs, p) ==
    LET d == Resolve(p)
    IN  IF SelfAndAncestors(d) \cap fs_files # {}
        THEN [raised |-> "OSError", dirs |-> fs_dirs]
        ELSE [raised |-> "", dirs |-> fs_dirs \cup SelfAndAncestors(d)]

----------------------------------------------------------------------------
(* VoiceCloner.clone_voice *)

\* a call tts.tts_to_file(text, file_path, speaker_wav, language) and the
\* exception it raised ("" when it returned)
TtsCall(text, reference_audio, output_path, language, raised) ==
    [text |-> text, speaker_wav |-> reference_audio,
     file_path |-> output_path, language |-> language, raised |-> raised]

\* what a call leaves behind: the exception raised ("" when it returned), the
\* value returned, the file system after it and the tts_to_file call it made
CvOutcome(raised, value, fs_files, fs_dirs, tts) ==
    [raised |-> raised, value |-> value, files |-> fs_files, dirs |-> fs_dirs,
     tts |-> tts]

\* clone_voice creating the output directory before it validates its inputs
CloneVoiceMkdirFirst(fs_files, fs_dirs, text, reference_audio, output_path, language, tts_ok) ==
    LET mk == MkdirParents(fs_files, fs_dirs, ParentPath(output_path))
    IN  IF ~Exists(fs_files, fs_dirs, reference_audio)
        THEN CvOutcome("FileNotFoundError", None, fs_files, mk.dirs, None)
        ELSE IF IsBlank(text)
        THEN CvOutcome("ValueError", None, fs_files, mk.dirs, None)
        ELSE IF mk.raised # ""
             THEN CvOutcome(mk.raised, None, fs_files, fs_dirs, None)
             ELSE IF tts_ok
                  THEN CvOutcome("", output_path,
                                 fs_files \cup {Resolve(output_path)}, mk.dirs,
                                 TtsCall(text, reference_audio, output_path, language, ""))
                  ELSE CvOutcome("TTSError", None, fs_files, mk.dirs,
                                 TtsCall(text, reference_audio, output_path, language, "TTSError"))

\* clone_voice(text, reference_audio, output_path, language) on the file system
\* (fs_files, fs_dirs); tts_ok: whether tts.tts_to_file succeeds this time
CloneVoice(fs_files, fs_dirs, text, reference_audio, output_path, language, tts_ok) ==
    IF ~Exists(fs_files, fs_dirs, reference_audio)
    THEN CvOutcome("FileNotFoundError", None, fs_files, fs_dirs, None)
    ELSE IF IsBlank(text)
    THEN CvOutcome("ValueError", None, fs_files, fs_dirs, None)
    ELSE LET mk == MkdirParents(fs_files, fs_dirs, ParentPath(output_path))
         IN  IF mk.raised # ""
             THEN CvOutcome(mk.raised, None, fs_files, fs_dirs, None)
             ELSE IF tts_ok
                  THEN CvOutcome("", output_path,
                                 fs_files \cup {Resolve(output_path)}, mk.dirs,
                                 TtsCall(text, reference_audio, output_path, language, ""))
                  ELSE CvOutcome("TTSError", None, fs_files, mk.dirs,
                                 TtsCall(text, reference_audio, output_path, language, "TTSError"))


SpecPath == PathInit /\ [][CallValidatePath]_vars

----------------------------------------------------------------------------
(* The file systems the program starts on *)

VoicesDir == <<"proj", "voices">>
OutputsDir == <<"proj", "outputs">>
ProfileDir == <<"proj", "voices", "my_voice">>

FileUniverse == {ProfileDir \o <<"combined.wav">>,
                 ProfileDir \o <<"sample_1.wav">>,
                 ProfileDir \o <<"sample_2.wav">>,
                 VoicesDir \o <<"a.wav">>,
                 <<"proj", "secret", "combined.wav">>}

OptionalDirs == {OutputsDir, ProfileDir}

\* the file outside voices and outputs: it is there whatever the voices are
SecretFile == <<"proj", "secret", "combined.wav">>

\* a file system: the file outside voices, some of the other files, the
\* directories above them, the root, the working directory and some of the
\* optional directories
FsInit ==
    /\ \E fs \in SUBSET (FileUniverse \ {SecretFile}) : files = fs \cup {SecretFile}
    /\ \E extra \in SUBSET OptionalDirs :
          dirs = {<<>>, CWD}
                 \cup UNION {SelfAndAncestors(d) : d \in extra}
                 \cup UNION {SelfAndAncestors(ParentParts(f)) : f \in files}

----------------------------------------------------------------------------
(* clone_voice called directly (as by the module's own test block) *)

CvTexts == {NoneText, Txt(<<>>), Txt(<<Sp(1)>>), Txt(<<Word("txt", FALSE, 1)>>),
            Txt(<<Sp(1), Word("txt", FALSE, 2), Sp(1)>>)}

CvReferences == {Rel(<<"voices", "my_voice", "combined.wav">>),
                 Rel(<<"voices", "a.wav">>),
                 Rel(<<"voices", "missing", "..", "a.wav">>)}

CvOutputs == {Rel(<<"outputs", "sub", "out.wav">>),
              Rel(<<"voices", "a.wav", "out.wav">>)}

CvLanguages == {"en", "es"}

ClonerInit ==
    /\ files \in SUBSET {ProfileDir \o <<"combined.wav">>, VoicesDir \o <<"a.wav">>}
    /\ \E extra \in SUBSET {OutputsDir} :
          dirs = {<<>>, CWD} \cup extra
                 \cup UNION {SelfAndAncestors(ParentParts(f)) : f \in files}
    /\ tts_call = None
    /\ cv_args = None
    /\ cv_result = None
    /\ vp_path = None /\ vp_allowed = None /\ vp_result = NoCall
    /\ FrontIdle /\ PrepIdle

\* one call cloner.clone_voice(text, reference_audio, output_path, language)
CallCloneVoice ==
    \E text \in CvTexts, ref \in CvReferences, out \in CvOutputs,
       lang \in CvLanguages, tts_ok \in BOOLEAN :
        LET o == CloneVoice(files, dirs, text, ref, out, lang, tts_ok)
        IN  /\ cv_args' = [text |-> text, reference_audio |-> ref,
                           output_path |-> out, language |-> lang]
            /\ cv_result' = [raised |-> o.raised, value |-> o.value]
            /\ tts_call' = o.tts
            /\ files' = o.files
            /\ dirs' = o.dirs
            /\ UNCHANGED <<paVars, vpVars, feVars, paVars>>

SpecCloner == ClonerInit /\ [][CallCloneVoice]_vars

----------------------------------------------------------------------------
(* cli.py: find_voice_file *)

\* the component names that end in ".wav"
WavNames == {"combined.wav", "sample_1.wav", "sample_2.wav", "a.wav"}

\* Path(p).suffix == ".wav"
HasWavSuffix(p) == p.parts # <<>> /\ p.parts[Len(p.parts)] \in WavNames

\* Path(p).exists() and Path(p).is_dir()
IsDir(fs_files, fs_dirs, p) == Exists(fs_files, fs_dirs, p) /\ Resolve(p) \in fs_dirs

\* list(Path(d).glob("*.wav")): the entries of d named *.wav, in no given order
GlobWav(fs_files, fs_dirs, d) ==
    {PathJoin(d, Rel(<<n>>)) : n \in {m \in WavNames :
                                        Append(Resolve(d), m) \in fs_files \cup fs_dirs}}

\* find_voice_file looking at the directory's listing before combined.wav
FindVoiceFileListingFirst(fs_files, fs_dirs, name) ==
    LET voices_dir == Rel(<<"voices">>)
        validated == ValidatePath(name, voices_dir)
        combined_path == PathJoin(PathJoin(voices_dir, name), Rel(<<"combined.wav">>))
        voice_dir == PathJoin(voices_dir, name)
        wav_files == GlobWav(fs_files, fs_dirs, voice_dir)
    IN  IF Exists(fs_files, fs_dirs, name) /\ HasWavSuffix(name)
           /\ validated.raised = ""
        THEN {validated.value}
        ELSE IF IsDir(fs_files, fs_dirs, voice_dir) /\ wav_files # {}
        THEN wav_files
        ELSE IF Exists(fs_files, fs_dirs, combined_path)
        THEN {combined_path}
        ELSE {None}

\* find_voice_file(voice_name): the values it can return (wav_files[0] is the
\* first entry of a listing whose order the file system decides)
FindVoiceFile(fs_files, fs_dirs, name) ==
    LET voices_dir == Rel(<<"voices">>)
        validated == ValidatePath(name, voices_dir)
        combined_path == PathJoin(PathJoin(voices_dir, name), Rel(<<"combined.wav">>))
        voice_dir == PathJoin(voices_dir, name)
        wav_files == GlobWav(fs_files, fs_dirs, voice_dir)
    IN  IF Exists(fs_files, fs_dirs, name) /\ HasWavSuffix(name)
           /\ validated.raised = ""
        THEN {validated.value}
        ELSE IF Exists(fs_files, fs_dirs, combined_path)
        THEN {combined_path}
        ELSE IF IsDir(fs_files, fs_dirs, voice_dir) /\ wav_files # {}
        THEN wav_files
        ELSE {None}

----------------------------------------------------------------------------
(* Inputs of the front ends *)

\* VoiceCloner.get_supported_languages()
SupportedLanguages == {"en", "es", "fr", "de", "it", "pt", "pl", "tr",
                       "ru", "nl", "cs", "ar", "zh-cn", "ja", "hu", "ko"}

\* a word of n characters that is no command
Filler(n) == Word("txt", FALSE, n)

LongLengths == {MAX_TEXT_LENGTH + k : k \in 1..MaxOver}

\* --voice
VoiceNames == {Rel(<<"my_voice">>),
               Rel(<<"nobody">>),
               Rel(<<"voices", "a.wav">>),
               Rel(<<"voices", "my_voice", "sample_1.wav">>),
               Rel(<<"secret", "combined.wav">>),
               Rel(<<"..", "secret">>),
               P(TRUE, <<"proj", "secret">>)}

\* --text (NoneText: the option is absent)
ArgTexts == {NoneText, Txt(<<>>), Txt(<<Sp(1)>>), Txt(<<Filler(1)>>),
             Txt(<<Filler(MAX_TEXT_LENGTH)>>)}
            \cup {Txt(<<Filler(n)>>) : n \in LongLengths}

\* --output (None: the option is absent)
ArgOutputs == {None,
               Rel(<<"outputs", "sub", "out.wav">>),
               Rel(<<"greeting.wav">>),
               Rel(<<"outputs", "..", "elsewhere", "out.wav">>),
               P(TRUE, <<"tmp", "out.wav">>)}

\* --output, --interactive and --list-voices; --output is read in single
\* generation mode only, and the other modes are started without it
CliArgs == {a \in [output : ArgOutputs, interactive : BOOLEAN, list_voices : BOOLEAN] :
                (a.interactive \/ a.list_voices) => a.output = None}

\* --language: passed on as given
ArgLanguages == {"en", "xx"}

\* the lines typed at the interactive prompt
InteractiveLines ==
    {<<>>, <<Sp(1)>>,
     <<Word("quit", FALSE, 4)>>, <<Word("quit", TRUE, 4)>>,
     <<Word("exit", FALSE, 4)>>, <<Word("q", FALSE, 1)>>,
     <<Word("help", FALSE, 4)>>, <<Sp(1), Word("help", TRUE, 4), Sp(1)>>,
     <<Word("lang", TRUE, 4), Sp(2), Word("es", TRUE, 2)>>,
     <<Word("lang", FALSE, 4), Sp(1), Word("en", FALSE, 2)>>,
     <<Word("lang", FALSE, 4), Sp(1), Word("xx", FALSE, 2)>>,
     <<Word("lang", FALSE, 4), Sp(1), Word("es", FALSE, 2), Sp(1), Filler(3)>>,
     <<Word("lang", FALSE, 4), Sp(1)>>,
     <<Word("quit", FALSE, 4), Sp(1), Filler(3)>>,
     <<Sp(1), Filler(MAX_TEXT_LENGTH), Sp(1)>>}
    \cup {<<Filler(n)>> : n \in LongLengths}

\* what input() gives: a line, end of input, or a keyboard interrupt
PromptEvents == {[kind |-> "line", toks |-> l] : l \in InteractiveLines}
                \cup {[kind |-> "eof", toks |-> <<>>],
                      [kind |-> "interrupt", toks |-> <<>>]}

\* sys.argv[1:] of quick_clone.py
QuickArgvs == {<<>>, <<Txt(<<>>)>>, <<Txt(<<Sp(1)>>)>>,
               <<Txt(<<Filler(5)>>), Txt(<<Filler(5)>>)>>,
               <<Txt(<<Filler(MAX_TEXT_LENGTH)>>)>>,
               <<Txt(<<Filler(MAX_TEXT_LENGTH - 1)>>), Txt(<<Filler(1)>>)>>}
              \cup {<<Txt(<<Filler(n)>>)>> : n \in LongLengths}

\* the text box of the web UI (NoneText: the handler is passed None)
WebTexts == {NoneText, Txt(<<Sp(1)>>),
             Txt(<<Sp(1), Filler(MAX_TEXT_LENGTH - 2), Sp(1)>>),
             Txt(<<Sp(1), Filler(MAX_TEXT_LENGTH), Sp(1)>>)}
            \cup {Txt(<<Filler(n)>>) : n \in LongLengths}

\* the voice dropdown of the web UI (None: nothing selected; Rel(<<>>): "")
WebVoices == {None, Rel(<<>>),
              Rel(<<"voices", "my_voice", "combined.wav">>),
              Rel(<<"voices", "missing", "..", "a.wav">>),
              Rel(<<"voices", "..", "secret", "combined.wav">>)}

FrontInit ==
    /\ FsInit
    /\ tts_call = None /\ cv_args = None /\ cv_result = None
    /\ vp_path = None /\ vp_allowed = None /\ vp_result = NoCall
    /\ FrontIdle /\ PrepIdle

----------------------------------------------------------------------------
(* Steps shared by the front ends *)

\* the step called clone_voice: the call, what it did and what it left behind
RecordCloneVoice(o, text, ref, out, lang) ==
    /\ cv_args' = [text |-> text, reference_audio |-> ref,
                   output_path |-> out, language |-> lang]
    /\ cv_result' = [raised |-> o.raised, value |-> o.value]
    /\ tts_call' = o.tts
    /\ files' = o.files
    /\ dirs' = o.dirs

\* the step did not call clone_voice; it leaves the directories fs_dirs
NoCloneVoice(fs_dirs) ==
    /\ cv_args' = None /\ cv_result' = None /\ tts_call' = None
    /\ files' = files
    /\ dirs' = fs_dirs

\* the process ends with `status` (sys.exit(status); a return from main is 0)
Exits(status, op, msg) ==
    /\ pc' = "exited"
    /\ exit_status' = status
    /\ last' = [op |-> op, msg |-> msg]

\* Path("outputs").mkdir(exist_ok=True)
MkOutputs(fs_dirs) == fs_dirs \cup {OutputsDir}

----------------------------------------------------------------------------
(* cli.py: main and interactive_mode *)

\* "interactive_{timestamp}_{counter:03d}.wav"
Pad3(n) == IF n < 10 THEN "00" \o ToString(n)
           ELSE IF n < 100 THEN "0" \o ToString(n) ELSE ToString(n)

InteractiveOutput(n) == Rel(<<"outputs", "interactive_ts_" \o Pad3(n) \o ".wav">>)

\* single generation writing wherever --output says
CliOutputUnchecked(output) ==
    [raised |-> "", value |-> P(TRUE, Resolve(output))]

\* main, lines 312-318: validate_path(args.output, "outputs")
CliOutput(output) == ValidatePath(output, Rel(<<"outputs">>))

\* main, lines 311-347: single generation mode once the text is accepted
CliGenerate(vf, text, output) ==
    LET v == IF output = None THEN None ELSE CliOutput(output)
    IN  IF output # None /\ v.raised # ""
        THEN /\ Exits(1, "cli", "output_outside")
             /\ NoCloneVoice(dirs)
        ELSE LET output_path == IF output = None
                                THEN Rel(<<"outputs", "output_ts.wav">>)
                                ELSE v.value
                 d1 == IF output = None THEN MkOutputs(dirs) ELSE dirs
                 mk == MkdirParents(files, d1, ParentPath(output_path))
             IN  IF mk.raised # ""
                 THEN /\ Exits(1, "cli", "crash")
                      /\ NoCloneVoice(d1)
                 ELSE \E lang \in ArgLanguages, tts_ok \in BOOLEAN :
                      LET o == CloneVoice(files, mk.dirs, text, vf, output_path,
                                          lang, tts_ok)
                      IN  /\ RecordCloneVoice(o, text, vf, output_path, lang)
                          /\ IF o.raised = ""
                             THEN Exits(0, "cli", "success")
                             ELSE Exits(1, "cli", "generation_failed")

\* python cli.py ... : main() up to the process's end or to the first prompt of
\* interactive mode
CliMain ==
    /\ pc = "start"
    /\ \E voice \in VoiceNames, args \in CliArgs :
        LET output == args.output
            interactive == args.interactive
            list_voices == args.list_voices
        IN
        /\ voice_name' = voice
        /\ cli_args' = args
        /\ IF list_voices
           THEN /\ Exits(0, "cli", "listed")
                /\ voice_file' = None
                /\ NoCloneVoice(dirs)
                /\ UNCHANGED <<counter, current_language>>
           ELSE \E vf \in FindVoiceFile(files, dirs, voice) :
                /\ voice_file' = vf
                /\ IF vf = None
                   THEN /\ Exits(1, "cli", "voice_not_found")
                        /\ NoCloneVoice(dirs)
                        /\ UNCHANGED <<counter, current_language>>
                   ELSE \E init_ok \in BOOLEAN :
                        IF ~init_ok
                        THEN /\ Exits(1, "cli", "init_failed")
                             /\ NoCloneVoice(dirs)
                             /\ UNCHANGED <<counter, current_language>>
                        ELSE IF interactive
                        THEN /\ pc' = "interactive"
                             /\ exit_status' = -1
                             /\ last' = [op |-> "cli", msg |-> "interactive"]
                             /\ counter' = 1
                             /\ current_language' = "en"
                             /\ NoCloneVoice(MkOutputs(dirs))
                        ELSE /\ UNCHANGED <<counter, current_language>>
                             /\ \E text \in ArgTexts :
                                IF ~Truthy(text)
                                THEN /\ Exits(1, "cli", "text_required")
                                     /\ NoCloneVoice(dirs)
                                ELSE IF TextLen(text) > MAX_TEXT_LENGTH
                                THEN /\ Exits(1, "cli", "text_too_long")
                                     /\ NoCloneVoice(dirs)
                                ELSE CliGenerate(vf, text, output)
    /\ UNCHANGED <<paVars, vpVars, prompt_event, web_args, web_result>>

\* s.lower()
LowerToks(toks) == [i \in 1..Len(toks) |-> [toks[i] EXCEPT !.up = FALSE]]

\* s.split(): the words
SplitToks(toks) == SelectSeq(toks, LAMBDA t : ~t.ws)

\* s.lower() in ["quit", "exit", "q"]
IsQuitCommand(toks) ==
    LowerToks(toks) \in {<<Word("quit", FALSE, 4)>>, <<Word("exit", FALSE, 4)>>,
                         <<Word("q", FALSE, 1)>>}

\* s.lower() == "help"
IsHelpCommand(toks) == LowerToks(toks) = <<Word("help", FALSE, 4)>>

\* s.lower().startswith("lang"): the test without the trailing space
IsLangCommandNoSpace(toks) ==
    /\ Len(toks) >= 1
    /\ LowerToks(toks)[1] = Word("lang", FALSE, 4)

\* s.lower().startswith("lang ")
IsLangCommand(toks) ==
    /\ Len(toks) >= 2
    /\ LowerToks(toks)[1] = Word("lang", FALSE, 4)
    /\ toks[2].ws /\ toks[2].w = " "

\* the loop going back to the prompt with nothing but `last` changed
BackToPrompt(msg) ==
    /\ pc' = "interactive"
    /\ exit_status' = -1
    /\ last' = [op |-> "interactive", msg |-> msg]

\* one pass of interactive_mode's loop ending the session on any failed generation
InteractiveGenerateFailStops(user_input) ==
    \E tts_ok \in BOOLEAN :
        LET out == InteractiveOutput(counter)
            o == CloneVoice(files, dirs, user_input, voice_file, out,
                            current_language, tts_ok)
        IN  /\ RecordCloneVoice(o, user_input, voice_file, out, current_language)
            /\ current_language' = current_language
            /\ IF o.raised = ""
               THEN /\ BackToPrompt("saved")
                    /\ counter' = counter + 1
               ELSE /\ Exits(1, "interactive", "error")
                    /\ counter' = counter

\* how synthesizing and playing a line can go: the model succeeds or raises,
\* or Ctrl-C arrives during the synthesis or during the playback that follows
\* a successful one
GenerationEvents == {"ok", "tts_error", "sigint_synthesis", "sigint_playback"}

\* clone_voice left by a KeyboardInterrupt raised inside tts.tts_to_file: it is
\* no Exception, so clone_voice's handler lets it through and no file is kept
Interrupted(o) ==
    [o EXCEPT !.raised = "KeyboardInterrupt",
              !.tts = [o.tts EXCEPT !.raised = "KeyboardInterrupt"]]

\* interactive_mode, lines 158-190: generate speech for the line and play it.
\* A KeyboardInterrupt during the synthesis passes `except Exception` and
\* reaches the loop's own handler, which ends the session; one during the
\* playback is taken by the bare `except:` around subprocess.run
InteractiveGenerate(user_input) ==
    \E g \in GenerationEvents :
        LET out == InteractiveOutput(counter)
            c == CloneVoice(files, dirs, user_input, voice_file, out,
                            current_language, g \in {"ok", "sigint_playback"})
            o == IF g = "sigint_synthesis" /\ c.tts # None THEN Interrupted(c) ELSE c
        IN  /\ RecordCloneVoice(o, user_input, voice_file, out, current_language)
            /\ current_language' = current_language
            /\ IF o.raised = ""
               THEN /\ BackToPrompt(IF g = "sigint_playback"
                                    THEN "saved_playback_interrupted" ELSE "saved")
                    /\ counter' = counter + 1
               ELSE IF o.raised = "KeyboardInterrupt"
               THEN /\ Exits(0, "interactive", "interrupt")
                    /\ counter' = counter
               ELSE /\ BackToPrompt("error")
                    /\ counter' = counter

\* one pass of interactive_mode's loop: prompt, read, act
InteractiveLine ==
    /\ pc = "interactive"
    /\ counter <= MaxCounter
    /\ \E ev \in PromptEvents :
        /\ prompt_event' = ev
        /\ IF ev.kind # "line"
           THEN \* EOFError or KeyboardInterrupt at input(): break; main returns
                /\ Exits(0, "interactive", ev.kind)
                /\ NoCloneVoice(dirs)
                /\ UNCHANGED <<counter, current_language>>
           ELSE LET user_input == Strip(Txt(ev.toks))
                    toks == user_input.toks
                IN  IF ~Truthy(user_input)
                    THEN /\ BackToPrompt("empty")
                         /\ NoCloneVoice(dirs)
                         /\ UNCHANGED <<counter, current_language>>
                    ELSE IF IsQuitCommand(toks)
                    THEN /\ Exits(0, "interactive", "quit")
                         /\ NoCloneVoice(dirs)
                         /\ UNCHANGED <<counter, current_language>>
                    ELSE IF IsHelpCommand(toks)
                    THEN /\ BackToPrompt("help")
                         /\ NoCloneVoice(dirs)
                         /\ UNCHANGED <<counter, current_language>>
                    ELSE IF IsLangCommand(toks)
                    THEN /\ NoCloneVoice(dirs)
                         /\ counter' = counter
                         /\ IF Len(SplitToks(toks)) < 2
                            THEN \* IndexError leaves the loop and main
                                 /\ Exits(1, "interactive", "crash")
                                 /\ current_language' = current_language
                            ELSE LET new_lang == SplitToks(LowerToks(toks))[2].w
                                 IN  IF new_lang \in SupportedLanguages
                                     THEN /\ BackToPrompt("lang_changed")
                                          /\ current_language' = new_lang
                                     ELSE /\ BackToPrompt("lang_unsupported")
                                          /\ current_language' = current_language
                    ELSE InteractiveGenerate(user_input)
    /\ UNCHANGED <<paVars, vpVars, voice_name, cli_args, voice_file, web_args, web_result>>

----------------------------------------------------------------------------
(* quick_clone.py *)

\* DEFAULT_VOICE
DEFAULT_VOICE == P(TRUE, ProfileDir \o <<"combined.wav">>)

RECURSIVE JoinSpace(_)
\* " ".join(argv)
JoinSpace(argv) ==
    IF argv = <<>> THEN <<>>
    ELSE IF Len(argv) = 1 THEN argv[1].toks
    ELSE argv[1].toks \o <<Sp(1)>> \o JoinSpace(Tail(argv))

\* python quick_clone.py argv... : main()
QuickCloneMain ==
    /\ pc = "start"
    /\ \E argv \in QuickArgvs :
        LET text == Txt(JoinSpace(argv))
            out == P(TRUE, OutputsDir \o <<"cloned_ts.wav">>)
        IN  IF Len(argv) < 1
            THEN Exits(1, "quick", "usage") /\ NoCloneVoice(dirs)
            ELSE IF ~Truthy(Strip(text))
            THEN Exits(1, "quick", "text_empty") /\ NoCloneVoice(dirs)
            ELSE IF TextLen(text) > MAX_TEXT_LENGTH
            THEN Exits(1, "quick", "text_too_long") /\ NoCloneVoice(dirs)
            ELSE IF ~Exists(files, dirs, DEFAULT_VOICE)
            THEN Exits(1, "quick", "voice_not_found") /\ NoCloneVoice(dirs)
            ELSE \E init_ok \in BOOLEAN, tts_ok \in BOOLEAN :
                 IF ~init_ok
                 THEN Exits(1, "quick", "init_failed") /\ NoCloneVoice(MkOutputs(dirs))
                 ELSE LET o == CloneVoice(files, MkOutputs(dirs), text, DEFAULT_VOICE,
                                          out, "en", tts_ok)
                      IN  /\ RecordCloneVoice(o, text, DEFAULT_VOICE, out, "en")
                          /\ IF o.raised = ""
                             THEN Exits(0, "quick", "success")
                             ELSE Exits(1, "quick", "generation_failed")
    /\ UNCHANGED <<paVars, vpVars, voice_name, cli_args, voice_file, counter, current_language,
                   prompt_event, web_args, web_result>>

----------------------------------------------------------------------------
(* web_ui.py *)

\* python web_ui.py : main() and create_web_ui() up to app.launch
WebStart ==
    /\ pc = "start"
    /\ \E init_ok \in BOOLEAN :
        IF init_ok
        THEN /\ pc' = "web" /\ exit_status' = -1
             /\ last' = [op |-> "web", msg |-> "launched"]
        ELSE Exits(1, "web", "init_failed")
    /\ NoCloneVoice(dirs)
    /\ UNCHANGED <<paVars, vpVars, voice_name, cli_args, voice_file, counter, current_language,
                   prompt_event, web_args, web_result>>

\* what a call of the handler leaves behind: the exception that left it (""
\* when it returned), the pair returned, the directories after it and what its
\* clone_voice call did (None: no call)
WebReturn(raised, audio_path, msg, fs_dirs, cv) ==
    [raised |-> raised, audio_path |-> audio_path, msg |-> msg, dirs |-> fs_dirs,
     cv |-> cv]

\* output_dir / f"web_ui_{timestamp}.wav"
WebOutputPath == Rel(<<"outputs", "web_ui_ts.wav">>)

\* generate_speech passing the selected voice on without validate_path
GenerateSpeechUnvalidated(fs_files, fs_dirs, text, voice, language, tts_ok) ==
    IF IsBlank(text)
    THEN WebReturn("", None, "enter_text", fs_dirs, None)
    ELSE IF TextLen(text) > MAX_TEXT_LENGTH
    THEN WebReturn("", None, "text_too_long", fs_dirs, None)
    ELSE IF voice = None \/ voice = Rel(<<>>)
    THEN WebReturn("", None, "select_voice", fs_dirs, None)
    ELSE IF ~Exists(fs_files, fs_dirs, voice)
         THEN WebReturn("", None, "voice_not_found", fs_dirs, None)
         ELSE LET o == CloneVoice(fs_files, MkOutputs(fs_dirs), text, voice,
                                  WebOutputPath, language, tts_ok)
              IN  IF o.raised = ""
                  THEN WebReturn("", WebOutputPath, "generated", o.dirs, o)
                  ELSE WebReturn("", None, "error", o.dirs, o)

\* generate_speech(text, voice_file, language) on the file system (fs_files,
\* fs_dirs); tts_ok: whether tts.tts_to_file succeeds this time.  The selected
\* voice is a str or None: "" is the path without components.
GenerateSpeech(fs_files, fs_dirs, text, voice, language, tts_ok) ==
    IF IsBlank(text)
    THEN WebReturn("", None, "enter_text", fs_dirs, None)
    ELSE IF TextLen(text) > MAX_TEXT_LENGTH
    THEN WebReturn("", None, "text_too_long", fs_dirs, None)
    ELSE IF voice = None \/ voice = Rel(<<>>)
    THEN WebReturn("", None, "select_voice", fs_dirs, None)
    ELSE LET v == ValidatePath(voice, Rel(<<"voices">>))
         IN  IF v.raised # ""
             THEN \* except ValueError
                  WebReturn("", None, "invalid_path", fs_dirs, None)
             ELSE IF ~Exists(fs_files, fs_dirs, v.value)
             THEN WebReturn("", None, "voice_not_found", fs_dirs, None)
             ELSE LET o == CloneVoice(fs_files, MkOutputs(fs_dirs), text, voice,
                                      WebOutputPath, language, tts_ok)
                  IN  IF o.raised = ""
                      THEN WebReturn("", WebOutputPath, "generated", o.dirs, o)
                      ELSE \* except Exception
                           WebReturn("", None, "error", o.dirs, o)

\* one call of the handler by the running web UI
WebGenerateSpeech ==
    /\ pc = "web"
    /\ \E text \in WebTexts, voice \in WebVoices, lang \in CvLanguages,
          tts_ok \in BOOLEAN :
        LET r == GenerateSpeech(files, dirs, text, voice, lang, tts_ok)
        IN  /\ web_args' = [text |-> text, voice_file |-> voice, language |-> lang]
            /\ web_result' = [raised |-> r.raised, audio_path |-> r.audio_path,
                              msg |-> r.msg]
            /\ IF r.cv = None
               THEN NoCloneVoice(r.dirs)
               ELSE RecordCloneVoice(r.cv, text, voice, WebOutputPath, lang)
            /\ last' = [op |-> "web", msg |-> r.msg]
    /\ pc' = "web" /\ exit_status' = -1
    /\ UNCHANGED <<paVars, vpVars, voice_name, cli_args, voice_file, counter, current_language,
                   prompt_event>>

FrontNext == CliMain \/ InteractiveLine \/ QuickCloneMain \/ WebStart
             \/ WebGenerateSpeech

Spec == FrontInit /\ [][FrontNext]_vars

----------------------------------------------------------------------------
(* scripts/prepare_audio.py.  An audio is [channels, frame_rate, lead, body, *)
(* trail, steps]: lead and trail are the milliseconds of silence at its two  *)
(* ends, body the milliseconds between them, steps the operations it has     *)
(* gone through.  A file is NoFile, or [present, ok, audio]: ok is whether   *)
(* AudioSegment.from_file can load it.                                       *)

\* more samples than this are not drawn for a voice directory
MaxSamples == 2

\* the sample rate prepare_audio converts to
TARGET_RATE == 22050

\* detect_nonsilent(min_silence_len=500)
MIN_SILENCE_LEN == 500

\* AudioSegment.silent(duration=500), the pause after each sample
PAUSE_MS == 500

\* combined[:-500]
TRAILING_MS == 500

NoFile == [present |-> FALSE]

AudioFile(ok, audio) == [present |-> TRUE, ok |-> ok, audio |-> audio]

Audio(channels, frame_rate, lead, body, trail) ==
    [channels |-> channels, frame_rate |-> frame_rate,
     lead |-> lead, body |-> body, trail |-> trail, steps |-> <<>>]

\* len(audio), in milliseconds
Duration(audio) == audio.lead + audio.body + audio.trail

\* "sample_<id>.wav" and "sample_<id>.processed.wav"
SampleName(i) == [id |-> i, processed |-> FALSE]

\* Path(name).with_suffix(".processed.wav")
ProcessedName(name) == [name EXCEPT !.processed = TRUE]

SampleNames == {[id |-> i, processed |-> b] : i \in 1..MaxSamples, b \in BOOLEAN}

\* the order of the names as strings: "sample_1.processed.wav" sorts before
\* "sample_1.wav", and both before the names of sample 2
NameLess(a, b) ==
    \/ a.id < b.id
    \/ a.id = b.id /\ a.processed /\ ~b.processed

RECURSIVE SortNames(_)
\* sorted(names)
SortNames(S) ==
    IF S = {} THEN <<>>
    ELSE LET first == CHOOSE a \in S : \A b \in S \ {a} : NameLess(a, b)
         IN  <<first>> \o SortNames(S \ {first})

\* glob.glob(str(voice_dir / "sample_*.wav"))
GlobSamples(fs) == {n \in SampleNames : fs[n].present}

\* an audio after one more operation
Step(audio, op) == [audio EXCEPT !.steps = Append(@, op)]

\* lines 38-40: audio.set_channels(1) when there are several channels
ToMono(audio) ==
    IF audio.channels > 1
    THEN [Step(audio, "mono") EXCEPT !.channels = 1]
    ELSE audio

\* lines 43-45: audio.set_frame_rate(22050) when the rate is another one
ToTargetRate(audio) ==
    IF audio.frame_rate # TARGET_RATE
    THEN [Step(audio, "resample") EXCEPT !.frame_rate = TARGET_RATE]
    ELSE audio

\* lines 53-63: cut the audio to its first and last non-silent range; a silence
\* shorter than min_silence_len is not detected, and an audio with no
\* non-silent range is left as it is
TrimSilence(audio) ==
    IF audio.body = 0
    THEN Step(audio, "trim")
    ELSE [Step(audio, "trim") EXCEPT
            !.lead = IF @ >= MIN_SILENCE_LEN THEN 0 ELSE @,
            !.trail = IF @ >= MIN_SILENCE_LEN THEN 0 ELSE @]

\* prepare_audio that keeps the channels of its input
PrepareAudioKeepChannels(file) ==
    IF ~file.present \/ ~file.ok THEN None
    ELSE TrimSilence(Step(ToTargetRate(Step(file.audio, "load")), "normalize"))

\* prepare_audio(input_path): the audio it exports, None when the load fails
PrepareAudio(file) ==
    IF ~file.present \/ ~file.ok THEN None
    ELSE TrimSilence(Step(ToTargetRate(ToMono(Step(file.audio, "load"))),
                          "normalize"))

\* a stretch of the combined audio: ms milliseconds of the file `src`, or of
\* silence (src = Silence)
Silence == [id |-> 0, processed |-> FALSE]

Segment(src, ms, audio) == [src |-> src, ms |-> ms, audio |-> audio]

SilentSegment(ms) == Segment(Silence, ms, None)

RECURSIVE DropTail(_, _)
\* segs[:-ms]: the audio without its last ms milliseconds
DropTail(segs, ms) ==
    IF segs = <<>> \/ ms = 0 THEN segs
    ELSE LET n == Len(segs)
             lastseg == segs[n]
         IN  IF lastseg.ms <= ms
             THEN DropTail(SubSeq(segs, 1, n - 1), ms - lastseg.ms)
             ELSE Append(SubSeq(segs, 1, n - 1),
                         [lastseg EXCEPT !.ms = @ - ms])

RECURSIVE ConcatenateGapAlways(_, _)
\* the loop adding its pause for a sample that failed to load as well
ConcatenateGapAlways(fs, samples) ==
    IF samples = <<>> THEN <<>>
    ELSE LET f == fs[Head(samples)]
             rest == ConcatenateGapAlways(fs, Tail(samples))
         IN  IF f.ok
             THEN <<Segment(Head(samples), Duration(f.audio), f.audio),
                    SilentSegment(PAUSE_MS)>> \o rest
             ELSE <<SilentSegment(PAUSE_MS)>> \o rest

RECURSIVE Concatenate(_, _)
\* lines 106-116: the loop over the samples; a sample that fails to load adds
\* nothing
Concatenate(fs, samples) ==
    IF samples = <<>> THEN <<>>
    ELSE LET f == fs[Head(samples)]
             rest == Concatenate(fs, Tail(samples))
         IN  IF f.ok
             THEN <<Segment(Head(samples), Duration(f.audio), f.audio),
                    SilentSegment(PAUSE_MS)>> \o rest
             ELSE rest

\* combine_samples that leaves the pause after the last sample in place
CombineSamplesKeepTrailing(fs) ==
    LET samples == SortNames(GlobSamples(fs))
    IN  IF samples = <<>> THEN None
        ELSE [segs |-> Concatenate(fs, samples)]

\* combine_samples(voice_dir): the audio exported as combined.wav, None when
\* there is no sample file
CombineSamples(fs) ==
    LET samples == SortNames(GlobSamples(fs))
    IN  IF samples = <<>> THEN None
        ELSE [segs |-> DropTail(Concatenate(fs, samples), TRAILING_MS)]

----------------------------------------------------------------------------
(* scripts/prepare_audio.py: main *)

\* the recordings a voice directory can hold
SampleFiles ==
    {NoFile,
     AudioFile(TRUE, Audio(2, 44100, 600, 1000, 600)),
     AudioFile(TRUE, Audio(1, TARGET_RATE, 200, 1000, 0)),
     AudioFile(TRUE, Audio(1, 44100, 300, 0, 0)),
     AudioFile(FALSE, Audio(1, TARGET_RATE, 0, 0, 0))}

\* --input (None: absent), --output (None: absent), --process-all
PrepArgs == [input : {None} \cup {SampleName(i) : i \in 1..MaxSamples},
             output : {None, Rel(<<"out.wav">>)},
             process_all : BOOLEAN]

PrepInit ==
    /\ pa_pc = "start"
    /\ pa_dir_exists \in BOOLEAN
    /\ \E raw \in [1..MaxSamples -> SampleFiles] :
          pa_fs = [n \in SampleNames |->
                      IF n.processed \/ ~pa_dir_exists THEN NoFile ELSE raw[n.id]]
    /\ pa_args = None /\ pa_queue = <<>>
    /\ pa_export = None /\ pa_combined = None /\ pa_last = ""
    /\ files = {} /\ dirs = {<<>>, CWD}
    /\ tts_call = None /\ cv_args = None /\ cv_result = None
    /\ vp_path = None /\ vp_allowed = None /\ vp_result = NoCall
    /\ FrontIdle

\* python scripts/prepare_audio.py ... : main() up to the loop over the
\* samples, to the combining, or to its return
PrepStart ==
    /\ pa_pc \in {"start", "done"}
    /\ \E args \in PrepArgs :
        /\ pa_args' = args
        /\ IF ~pa_dir_exists
           THEN /\ pa_pc' = "done" /\ pa_last' = "no_voice_dir"
                /\ UNCHANGED <<pa_fs, pa_queue, pa_export, pa_combined>>
           ELSE IF args.input # None
           THEN LET out == PrepareAudio(pa_fs[args.input])
                IN  /\ pa_pc' = "done" /\ pa_last' = "single"
                    /\ pa_export' = out
                    /\ pa_fs' = IF out # None /\ args.output = None
                                THEN [pa_fs EXCEPT ![ProcessedName(args.input)] =
                                                        AudioFile(TRUE, out)]
                                ELSE pa_fs
                    /\ UNCHANGED <<pa_queue, pa_combined>>
           ELSE IF args.process_all
           THEN LET samples == SortNames(GlobSamples(pa_fs))
                IN  /\ IF samples = <<>>
                       THEN pa_pc' = "done" /\ pa_last' = "no_samples"
                       ELSE pa_pc' = "process" /\ pa_last' = "process_all"
                    /\ pa_queue' = samples
                    /\ UNCHANGED <<pa_fs, pa_export, pa_combined>>
           ELSE /\ pa_pc' = "combine" /\ pa_last' = "combining"
                /\ UNCHANGED <<pa_fs, pa_queue, pa_export, pa_combined>>
    /\ UNCHANGED <<pa_dir_exists, vpVars, fsVars, ttsVars, cvVars, feVars>>

\* lines 215-222: one pass of the loop over the samples, or its end
PrepProcessNext ==
    /\ pa_pc = "process"
    /\ IF pa_queue = <<>>
       THEN /\ pa_pc' = "combine" /\ pa_last' = "all_processed"
            /\ UNCHANGED <<pa_fs, pa_queue, pa_export>>
       ELSE LET sample == Head(pa_queue)
                out == PrepareAudio(pa_fs[sample])
            IN  /\ pa_queue' = Tail(pa_queue)
                /\ pa_pc' = "process"
                /\ IF sample.processed
                   THEN /\ pa_last' = "skipped"
                        /\ UNCHANGED <<pa_fs, pa_export>>
                   ELSE /\ pa_last' = "prepared"
                        /\ pa_export' = out
                        /\ pa_fs' = IF out # None
                                    THEN [pa_fs EXCEPT ![ProcessedName(sample)] =
                                                            AudioFile(TRUE, out)]
                                    ELSE pa_fs
    /\ UNCHANGED <<pa_dir_exists, pa_args, pa_combined,
                   vpVars, fsVars, ttsVars, cvVars, feVars>>

\* lines 226-239: combine_samples(voice_dir) and the end of main
PrepCombine ==
    /\ pa_pc = "combine"
    /\ LET out == CombineSamples(pa_fs)
       IN  /\ pa_combined' = IF out = None THEN pa_combined ELSE out
           /\ pa_last' = IF out = None THEN "no_samples" ELSE "combined"
    /\ pa_pc' = "done"
    /\ UNCHANGED <<pa_dir_exists, pa_fs, pa_args, pa_queue, pa_export,
                   vpVars, fsVars, ttsVars, cvVars, feVars>>

PrepNext == PrepStart \/ PrepProcessNext \/ PrepCombine

SpecPrepare == PrepInit /\ [][PrepNext]_vars


----------------------------------------------------------------------------
(* C1 *)

RECURSIVE IsSelfOrDescendant(_, _)
\* d is the directory a or lies below it: a is reached from d by taking parents
IsSelfOrDescendant(d, a) ==
    IF d = a THEN TRUE
    ELSE IF d = <<>> THEN FALSE
    ELSE IsSelfOrDescendant(ParentParts(d), a)

\* C1: validate_path returns the resolved path exactly when the resolved path
\* is the resolved allowed_parent or a descendant of it; for every other path
\* it raises ValueError and returns nothing.
C1_ValidatePathContainment ==
    vp_result # NoCall =>
        LET resolved == Resolve(vp_path)
            allowed  == Resolve(vp_allowed)
        IN  IF IsSelfOrDescendant(resolved, allowed)
            THEN vp_result = [raised |-> "", value |-> P(TRUE, resolved)]
            ELSE vp_result = [raised |-> "ValueError", value |-> None]

\* a relative path that climbs out of voices through ".." was rejected
C1_Witness_EscapeRejected ==
    /\ vp_path = Rel(<<"voices", "..", "outputs">>)
    /\ vp_allowed = Rel(<<"voices">>)
    /\ vp_result.raised = "ValueError"

----------------------------------------------------------------------------
(* C2 *)

IsMonoAtTargetRate(audio) == audio.channels = 1 /\ audio.frame_rate = 22050

\* C2: every audio prepare_audio exports is mono at 22050 Hz, whatever the
\* channels and the rate of the input it loaded.
C2_ExportsMonoAtTargetRate ==
    /\ (pa_export # None) => IsMonoAtTargetRate(pa_export)
    /\ \A n \in DOMAIN pa_fs :
          (n.processed /\ pa_fs[n].present) => IsMonoAtTargetRate(pa_fs[n].audio)

\* a stereo recording at 44100 Hz was prepared and written as
\* sample_1.processed.wav
C2_Witness_StereoConverted ==
    /\ pa_last \in {"prepared", "single"}
    /\ pa_fs[SampleName(1)].present /\ pa_fs[SampleName(1)].ok
    /\ pa_fs[SampleName(1)].audio.channels = 2
    /\ pa_fs[SampleName(1)].audio.frame_rate = 44100
    /\ pa_fs[ProcessedName(SampleName(1))].present
    /\ pa_export = pa_fs[ProcessedName(SampleName(1))].audio

----------------------------------------------------------------------------
(* C3 *)

\* the operations of prepare_audio in their order; the two conversions are
\* made only where the input needs them
IsPrepared(audio) ==
    /\ audio # None
    /\ audio.steps \in {<<"load", "mono", "resample", "normalize", "trim">>,
                        <<"load", "mono", "normalize", "trim">>,
                        <<"load", "resample", "normalize", "trim">>,
                        <<"load", "normalize", "trim">>}
    /\ IsMonoAtTargetRate(audio)

\* C3: in a run that produces a combined voice file, every sample concatenated
\* into it has gone through load, mono conversion, resampling, normalization
\* and silence trimming, in that order, before the concatenation.
C3_CombinedSamplesPrepared ==
    (pa_last = "combined") =>
        \A i \in 1..Len(pa_combined.segs) :
            pa_combined.segs[i].src # Silence =>
                IsPrepared(pa_combined.segs[i].audio)

----------------------------------------------------------------------------
(* C4 *)

\* the samples of the voice directory that load
LoadableSamples == {n \in DOMAIN pa_fs : pa_fs[n].present /\ pa_fs[n].ok}

RECURSIVE TotalMs(_)
TotalMs(segs) == IF segs = <<>> THEN 0 ELSE Head(segs).ms + TotalMs(Tail(segs))

RECURSIVE SumDurations(_)
SumDurations(S) ==
    IF S = {} THEN 0
    ELSE LET n == CHOOSE x \in S : TRUE
         IN  Duration(pa_fs[n].audio) + SumDurations(S \ {n})

\* C4: when k >= 1 samples load, the combined audio is those k samples, whole,
\* in the order of their file names, with one 500 ms silence between each
\* consecutive pair and none before the first or after the last; its duration
\* is the sum of theirs plus 500 * (k - 1) ms.
C4_CombinedIsSamplesWithGaps ==
    (pa_last = "combined" /\ LoadableSamples # {}) =>
        LET segs == pa_combined.segs
            k == Cardinality(LoadableSamples)
        IN  /\ Len(segs) = 2 * k - 1
            /\ {segs[2 * i - 1].src : i \in 1..k} = LoadableSamples
            /\ \A i \in 1..k :
                  /\ segs[2 * i - 1].ms = Duration(pa_fs[segs[2 * i - 1].src].audio)
                  /\ segs[2 * i - 1].audio = pa_fs[segs[2 * i - 1].src].audio
            /\ \A i \in 1..(k - 1) :
                  /\ segs[2 * i] = SilentSegment(500)
                  /\ NameLess(segs[2 * i - 1].src, segs[2 * i + 1].src)
            /\ TotalMs(segs) = SumDurations(LoadableSamples) + 500 * (k - 1)

\* two samples loaded, the second shorter than the pause, and were combined
\* with one pause between them
C4_Witness_TwoSamplesOneGap ==
    /\ pa_last = "combined"
    /\ LoadableSamples = {SampleName(1), SampleName(2)}
    /\ Duration(pa_fs[SampleName(2)].audio) < 500
    /\ Len(pa_combined.segs) = 3

----------------------------------------------------------------------------
(* C5 *)

\* the sample files of the voice directory that fail to load
FailingSamples == {n \in DOMAIN pa_fs : pa_fs[n].present /\ ~pa_fs[n].ok}

\* C5: combine_samples skips a sample that fails to load: it adds neither
\* audio nor a pause for it, the samples that load are all concatenated and
\* the combined file is exported all the same.
C5_FailedSampleSkipped ==
    [][ (pa_pc = "combine" /\ FailingSamples # {}) =>
            /\ pa_pc' = "done"
            /\ pa_last' = "combined"
            /\ pa_combined' # None
            /\ LET segs == pa_combined'.segs
                   k == Cardinality(LoadableSamples)
               IN  /\ \A i \in 1..Len(segs) : segs[i].src \notin FailingSamples
                   /\ \A n \in LoadableSamples :
                         \E i \in 1..Len(segs) :
                            segs[i].src = n /\ segs[i].ms = Duration(pa_fs[n].audio)
                   /\ Cardinality({i \in 1..Len(segs) : segs[i].src = Silence})
                         = IF k = 0 THEN 0 ELSE k - 1
      ]_vars

\* a directory whose first sample fails to load and whose second loads was
\* combined into the second sample alone
C5_Witness_BadSampleLeftOut ==
    /\ pa_last = "combined"
    /\ FailingSamples = {SampleName(1)}
    /\ LoadableSamples = {SampleName(2)}
    /\ Len(pa_combined.segs) = 1
    /\ pa_combined.segs[1].src = SampleName(2)

----------------------------------------------------------------------------
(* C6 *)

\* C6: in interactive mode a generation that fails (clone_voice raises an
\* Exception) is reported and the loop goes back to the prompt: the session
\* does not end, and the counter, the current language and the voice file are
\* what they were before the attempt.
C6_FailedGenerationKeepsSession ==
    [][ (pc = "interactive" /\ cv_result' # None
         /\ cv_result'.raised \notin {"", "KeyboardInterrupt"}) =>
            /\ pc' = "interactive"
            /\ last' = [op |-> "interactive", msg |-> "error"]
            /\ counter' = counter
            /\ current_language' = current_language
            /\ voice_file' = voice_file
      ]_vars

\* after one saved generation and a change of language, a generation failed
\* in the model and the session is back at the prompt
C6_Witness_FailedThenPrompt ==
    /\ pc = "interactive"
    /\ last = [op |-> "interactive", msg |-> "error"]
    /\ cv_result # None /\ cv_result.raised = "TTSError"
    /\ counter = 2
    /\ current_language = "es"

----------------------------------------------------------------------------
(* C7 *)

\* C7: clone_voice raises FileNotFoundError when the reference audio does not
\* exist and ValueError when the text is empty or whitespace-only (the
\* reference check coming first), in both cases before any side effect: no
\* directory or file is created and tts_to_file is not invoked.  When both
\* checks pass and the model succeeds it returns output_path; when the model
\* raises, the exception reaches the caller.
C7_CloneVoiceValidatesFirst ==
    [][ LET a == cv_args'
            missing == ~Exists(files, dirs, a.reference_audio)
            blank == a.text.none \/ RStripToks(LStripToks(a.text.toks)) = <<>>
        IN  /\ missing =>
                /\ cv_result'.raised = "FileNotFoundError"
                /\ dirs' = dirs /\ files' = files /\ tts_call' = None
            /\ (blank /\ ~missing) =>
                /\ cv_result'.raised = "ValueError"
                /\ dirs' = dirs /\ files' = files /\ tts_call' = None
            /\ blank => cv_result'.raised \in {"FileNotFoundError", "ValueError"}
            /\ (~missing /\ ~blank) =>
                \/ cv_result'.raised = "OSError" /\ tts_call' = None
                \/ /\ tts_call' # None
                   /\ tts_call'.raised = "" =>
                        cv_result' = [raised |-> "", value |-> a.output_path]
                   /\ tts_call'.raised # "" =>
                        cv_result' = [raised |-> tts_call'.raised, value |-> None]
      ]_vars

\* a whitespace-only text with an existing reference was refused with
\* ValueError while the output directory is still missing
C7_Witness_BlankTextRefused ==
    /\ cv_result # None
    /\ cv_result.raised = "ValueError"
    /\ cv_args.text = Txt(<<Sp(1)>>)
    /\ Exists(files, dirs, cv_args.reference_audio)
    /\ OutputsDir \notin dirs
    /\ tts_call = None

----------------------------------------------------------------------------
(* C8 *)

\* C8: whatever the voice name, a result of find_voice_file other than None
\* is a path that resolves inside the voices directory.
C8_VoiceFileInsideVoices ==
    (voice_file # None) => IsSelfOrDescendant(Resolve(voice_file), VoicesDir)

----------------------------------------------------------------------------
(* C9 *)

\* the messages that report an error
ErrorMessages == {"voice_not_found", "init_failed", "text_required",
                  "text_too_long", "output_outside", "generation_failed"}

----------------------------------------------------------------------------
(* C10 *)

\* C10: no entry point that takes text from the user calls clone_voice with a
\* text of more than 10000 characters.
C10_NoLongTextSynthesized ==
    (cv_args # None) => TextLen(cv_args.text) <= MAX_TEXT_LENGTH

----------------------------------------------------------------------------
(* C11 *)

\* the status messages of generate_speech that report an error
WebErrorMessages == {"enter_text", "text_too_long", "select_voice",
                     "invalid_path", "voice_not_found", "error"}

----------------------------------------------------------------------------
(* C12 *)

\* the words of a line, as typed
WordsOf(toks) == SelectSeq(toks, LAMBDA t : ~t.ws)

\* the line is a command 'lang <code>': its first word is lang in any letter
\* case, and a code follows it after a space
IsLangLine(ev) ==
    /\ ev.kind = "line"
    /\ Len(WordsOf(ev.toks)) >= 2
    /\ WordsOf(ev.toks)[1].w = "lang"

\* C12: in interactive mode the current language is always a supported
\* language: it starts as "en"; a line 'lang <code>' sets it to the lower-cased
\* code when that is a supported language and leaves it as it was otherwise;
\* such a line calls neither clone_voice nor the model, keeps the counter and
\* goes back to the prompt; and no input whatever ends the session with the
\* handler failing on a missing argument.
C12_LanguageAlwaysSupported ==
    [][ /\ (pc # "interactive" /\ pc' = "interactive") => current_language' = "en"
        /\ (pc' = "interactive") => current_language' \in SupportedLanguages
        /\ (pc = "interactive") =>
              /\ last'.msg # "crash"
              /\ IsLangLine(prompt_event') =>
                    LET code == WordsOf(prompt_event'.toks)[2].w
                    IN  /\ pc' = "interactive"
                        /\ current_language' = IF code \in SupportedLanguages
                                                THEN code ELSE current_language
                        /\ counter' = counter
                        /\ cv_args' = None
                        /\ tts_call' = None
                        /\ files' = files
      ]_vars

\* 'LANG  ES', in upper case and with two spaces, changed the language from
\* "en" to "es" before any generation
C12_Witness_LanguageChanged ==
    /\ pc = "interactive"
    /\ prompt_event # None
    /\ prompt_event.toks = <<Word("lang", TRUE, 4), Sp(2), Word("es", TRUE, 2)>>
    /\ current_language = "es"
    /\ counter = 1
    /\ cv_args = None

----------------------------------------------------------------------------
(* C13 *)

\* the line is quit, exit or q in any letter case, with nothing but whitespace
\* around it
IsQuitLine(ev) ==
    /\ ev.kind = "line"
    /\ Len(WordsOf(ev.toks)) = 1
    /\ WordsOf(ev.toks)[1].w \in {"quit", "exit", "q"}

\* the line is empty (or whitespace only) or is help in any letter case
IsEmptyOrHelpLine(ev) ==
    /\ ev.kind = "line"
    /\ \/ WordsOf(ev.toks) = <<>>
       \/ Len(WordsOf(ev.toks)) = 1 /\ WordsOf(ev.toks)[1].w = "help"

\* C13: a pass of the interactive loop ends the session exactly when the line
\* read is quit, exit or q, when the input is at its end, or when a keyboard
\* interrupt arrived during the pass; after any other pass the session is back
\* at the prompt; and an empty line or help leaves the counter, the language,
\* the voice file and the file system as they were and synthesizes nothing.
C13_SessionEndsExactlyOnQuit ==
    [][ (pc = "interactive") =>
            LET ev == prompt_event'
                sigint == \/ ev.kind = "interrupt"
                          \/ cv_result' # None /\ cv_result'.raised = "KeyboardInterrupt"
                          \/ last'.msg = "saved_playback_interrupted"
                ends == IsQuitLine(ev) \/ ev.kind = "eof" \/ sigint
            IN  /\ ends => pc' = "exited"
                /\ ~ends => pc' = "interactive"
                /\ IsEmptyOrHelpLine(ev) =>
                      /\ counter' = counter
                      /\ current_language' = current_language
                      /\ voice_file' = voice_file
                      /\ files' = files /\ dirs' = dirs
                      /\ cv_args' = None /\ tts_call' = None
      ]_vars

----------------------------------------------------------------------------
(* C14 *)

\* C14: find_voice_file(name) answers in a fixed order of priority.  When name
\* is an existing path named *.wav that resolves inside the voices directory,
\* it returns that resolved path.  Otherwise, when voices/<name>/combined.wav
\* exists, it returns that path, whatever other .wav files the directory
\* holds.  Otherwise, when voices/<name> is a directory holding .wav entries,
\* it returns one of them.  Otherwise it returns None.
C14_FindVoiceFilePriority ==
    [][ (pc = "start" /\ last'.op = "cli" /\ ~cli_args'.list_voices) =>
            LET name == voice_name'
                found == voice_file'
                direct == /\ Exists(files, dirs, name)
                          /\ name.parts # <<>>
                          /\ name.parts[Len(name.parts)] \in WavNames
                          /\ IsSelfOrDescendant(Resolve(name), VoicesDir)
                profile == PathJoin(Rel(<<"voices">>), name)
                combined == PathJoin(profile, Rel(<<"combined.wav">>))
                listed == {f \in files \cup dirs :
                              /\ Resolve(profile) \in dirs
                              /\ Exists(files, dirs, profile)
                              /\ f # <<>>
                              /\ ParentParts(f) = Resolve(profile)
                              /\ f[Len(f)] \in WavNames}
            IN  IF direct
                THEN found = P(TRUE, Resolve(name))
                ELSE IF Exists(files, dirs, combined)
                THEN found = combined
                ELSE IF listed # {}
                THEN found # None /\ Resolve(found) \in listed
                     /\ ParentPath(found) = profile
                ELSE found = None
      ]_vars

\* the profile my_voice holds combined.wav and both samples, and its
\* combined.wav was found
C14_Witness_CombinedOverSamples ==
    /\ voice_name = Rel(<<"my_voice">>)
    /\ {ProfileDir \o <<"combined.wav">>, ProfileDir \o <<"sample_1.wav">>,
        ProfileDir \o <<"sample_2.wav">>} \subseteq files
    /\ voice_file = Rel(<<"voices", "my_voice", "combined.wav">>)
    /\ pc = "interactive"

====
